---- MODULE Spec2Model ----
(***************************************************************************)
(* Model of api-rate-limit-monitor (src/monitor.py): the RateLimitMonitor  *)
(* object, its registry `apis`, the persisted document apis.json, one      *)
(* check of one target (check_rate_limit), one pass over all targets       *)
(* (check_all_apis), the two alert senders and the run loop.               *)
(*                                                                         *)
(* Python and JSON values are tagged records: [int |-> n], [str |-> s],    *)
(* [null |-> TRUE], and None.                                              *)
(* A float is the exact rational [num |-> n, den |-> d] with d > 0; for    *)
(* the integers used here (far below 2^53) Python's correctly rounded      *)
(* division and comparison agree with the exact rational ones.             *)
(* A header value is the sequence of its characters.                       *)
(*                                                                         *)
(* saves counts the calls of save_apis made by the operation in progress   *)
(* or last finished; jobs is the number of jobs registered with the        *)
(* `schedule` module's default scheduler.                                  *)
(***************************************************************************)
EXTENDS Integers, Sequences, FiniteSets, TLC

VARIABLES apis, disk, pc, idx, clock, slack_on, discord_on, last, failed, saves,
          jobs

vars == <<apis, disk, pc, idx, clock, slack_on, discord_on, last, failed, saves,
          jobs>>

----------------------------------------------------------------------------
(* Python values *)

None == [none |-> TRUE]
PyInt(n) == [int |-> n]
IsInt(v) == DOMAIN v = {"int"}

(* a float as an exact rational *)
Rat(n, d) == [num |-> n, den |-> d]
(* a >= b for rationals with positive denominators *)
RatGE(a, b) == a.num * b.den >= b.num * a.den

----------------------------------------------------------------------------
(* int(s) of a header value, src/monitor.py:101-102 *)

Digits == {"0", "1", "2", "3", "4", "5", "6", "7", "8", "9"}
DigitVal == ("0" :> 0) @@ ("1" :> 1) @@ ("2" :> 2) @@ ("3" :> 3) @@ ("4" :> 4)
            @@ ("5" :> 5) @@ ("6" :> 6) @@ ("7" :> 7) @@ ("8" :> 8) @@ ("9" :> 9)

RECURSIVE DigitsValue(_)
DigitsValue(s) ==
    IF Len(s) = 0 THEN 0
    ELSE 10 * DigitsValue(SubSeq(s, 1, Len(s) - 1)) + DigitVal[s[Len(s)]]

AllDigits(s) == Len(s) > 0 /\ \A i \in 1..Len(s) : s[i] \in Digits

(* int() accepts an optional sign followed by at least one digit; any     *)
(* other text raises ValueError                                           *)
IsIntLiteral(s) ==
    \/ AllDigits(s)
    \/ Len(s) > 1 /\ s[1] \in {"+", "-"} /\ AllDigits(Tail(s))

IntValue(s) ==
    IF s[1] = "-" THEN 0 - DigitsValue(Tail(s))
    ELSE IF s[1] = "+" THEN DigitsValue(Tail(s))
    ELSE DigitsValue(s)

----------------------------------------------------------------------------
(* One check of one target, src/monitor.py:82-128.                        *)
(* A response is [fetch, headers, ctype, body]: fetch is "ok" or the      *)
(* failure of requests.get / raise_for_status; headers maps the header    *)
(* names that are present to their text; ctype is the Content-Type (""    *)
(* when absent); body is the text of the body, given by what json()       *)
(* makes of it: [invalid |-> TRUE] when it does not decode, else a JSON   *)
(* value [null], [int], [str], [obj |-> fields].  The `resources` object  *)
(* is [vals |-> <<...>>], its values in document order, which is all the  *)
(* code reads of it.                                                      *)

header_variants ==
    << <<"X-RateLimit-Remaining", "X-RateLimit-Limit">>,
       <<"RateLimit-Remaining", "RateLimit-Limit">>,
       <<"X-Rate-Limit-Remaining", "X-Rate-Limit-Limit">> >>

PairPresent(headers, i) ==
    /\ header_variants[i][1] \in DOMAIN headers
    /\ header_variants[i][2] \in DOMAIN headers

(* FirstPair with the list walked from its end *)
FirstPair_last(headers) ==
    IF \E i \in 1..Len(header_variants) : PairPresent(headers, i)
    THEN CHOOSE i \in 1..Len(header_variants) :
            /\ PairPresent(headers, i)
            /\ \A j \in (i + 1)..Len(header_variants) : ~PairPresent(headers, j)
    ELSE 0

(* the pair at which the loop of lines 99-103 stops, 0 when it runs out *)
FirstPair(headers) ==
    IF \E i \in 1..Len(header_variants) : PairPresent(headers, i)
    THEN CHOOSE i \in 1..Len(header_variants) :
            /\ PairPresent(headers, i)
            /\ \A j \in 1..(i - 1) : ~PairPresent(headers, j)
    ELSE 0

(* response.headers.get('Content-Type', '').startswith('application/json') *)
JsonContentTypes == {"application/json", "application/json; charset=utf-8"}
IsJsonContentType(ctype) == ctype \in JsonContentTypes

(* DictGet with 0 as the default for a missing key *)
DictGet_zero(obj, key) ==
    IF key \in DOMAIN obj /\ DOMAIN obj[key] # {"null"} THEN obj[key] ELSE [int |-> 0]

(* dict.get(key) on a JSON object: the value, None for a missing key or a *)
(* JSON null                                                              *)
DictGet(obj, key) ==
    IF key \in DOMAIN obj /\ DOMAIN obj[key] # {"null"} THEN obj[key] ELSE None

IsObj(v) == DOMAIN v = {"obj"}

(* lines 113-117: the first value of `resources` holding both keys;      *)
(* a value that is a number or null raises TypeError on `in`             *)
RECURSIVE ScanResources(_)
ScanResources(vals) ==
    IF Len(vals) = 0 THEN [exc |-> "", remaining |-> None, limit |-> None]
    ELSE LET resource == Head(vals) IN
         IF ~IsObj(resource)
         THEN [exc |-> "TypeError", remaining |-> None, limit |-> None]
         ELSE IF "remaining" \in DOMAIN resource.obj /\ "limit" \in DOMAIN resource.obj
         THEN [exc |-> "", remaining |-> DictGet(resource.obj, "remaining"),
                           limit |-> DictGet(resource.obj, "limit")]
         ELSE ScanResources(Tail(vals))

(* FromJson with the two shapes tried in the other order *)
FromJson_resources_first(body) ==
    IF DOMAIN body = {"invalid"}
    THEN [exc |-> "JSONDecodeError", remaining |-> None, limit |-> None]
    ELSE IF ~IsObj(body)
    THEN [exc |-> "TypeError", remaining |-> None, limit |-> None]
    ELSE LET data == body.obj IN
         IF "resources" \in DOMAIN data
         THEN IF DOMAIN data["resources"] # {"vals"}
              THEN [exc |-> "AttributeError", remaining |-> None, limit |-> None]
              ELSE ScanResources(data["resources"].vals)
         ELSE IF "rate" \in DOMAIN data
         THEN IF ~IsObj(data["rate"])
              THEN [exc |-> "AttributeError", remaining |-> None, limit |-> None]
              ELSE [exc |-> "", remaining |-> DictGet(data["rate"].obj, "remaining"),
                                limit |-> DictGet(data["rate"].obj, "limit")]
         ELSE [exc |-> "", remaining |-> None, limit |-> None]

(* lines 106-117: the JSON strategy *)
FromJson(body) ==
    IF DOMAIN body = {"invalid"}
    THEN [exc |-> "JSONDecodeError", remaining |-> None, limit |-> None]
    ELSE IF ~IsObj(body)
    THEN [exc |-> "TypeError", remaining |-> None, limit |-> None]
    ELSE LET data == body.obj IN
         IF "rate" \in DOMAIN data
         THEN IF ~IsObj(data["rate"])
              THEN [exc |-> "AttributeError", remaining |-> None, limit |-> None]
              ELSE [exc |-> "", remaining |-> DictGet(data["rate"].obj, "remaining"),
                                limit |-> DictGet(data["rate"].obj, "limit")]
         ELSE IF "resources" \in DOMAIN data
         THEN IF DOMAIN data["resources"] # {"vals"}
              THEN [exc |-> "AttributeError", remaining |-> None, limit |-> None]
              ELSE ScanResources(data["resources"].vals)
         ELSE [exc |-> "", remaining |-> None, limit |-> None]

(* FromHeaders going on to the next pair when a value is no integer *)
FromHeaders_skip_bad(headers) ==
    LET good == {i \in 1..Len(header_variants) :
                    /\ PairPresent(headers, i)
                    /\ IsIntLiteral(headers[header_variants[i][1]])
                    /\ IsIntLiteral(headers[header_variants[i][2]])}
    IN  IF good = {} THEN [exc |-> "", remaining |-> None, limit |-> None]
        ELSE LET i == CHOOSE k \in good : \A j \in good : k <= j
             IN  [exc |-> "", remaining |-> PyInt(IntValue(headers[header_variants[i][1]])),
                              limit |-> PyInt(IntValue(headers[header_variants[i][2]]))]

(* lines 99-103: the header strategy *)
FromHeaders(headers) ==
    LET i == FirstPair(headers) IN
    IF i = 0 THEN [exc |-> "", remaining |-> None, limit |-> None]
    ELSE LET rem == headers[header_variants[i][1]]
             lim == headers[header_variants[i][2]]
         IN  IF ~IsIntLiteral(rem) \/ ~IsIntLiteral(lim)
             THEN [exc |-> "ValueError", remaining |-> None, limit |-> None]
             ELSE [exc |-> "", remaining |-> PyInt(IntValue(rem)),
                               limit |-> PyInt(IntValue(lim))]

(* Usage as the fraction that remains instead of the fraction used *)
Usage_remaining(remaining, limit) ==
    IF limit.int > 0 THEN Rat(remaining.int, limit.int) ELSE Rat(0, 1)

(* line 123: (limit - remaining) / limit if limit > 0 else 0, for an     *)
(* integer limit; remaining is read only when limit > 0                  *)
Usage(remaining, limit) ==
    IF limit.int > 0 THEN Rat(limit.int - remaining.int, limit.int) ELSE Rat(0, 1)

(* lines 119-124: `limit > 0` raises TypeError for a limit that is not a *)
(* number, and so does the subtraction for such a remaining              *)
MakeResult(remaining, limit) ==
    IF remaining = None \/ limit = None THEN [exc |-> "", ret |-> None]
    ELSE IF ~IsInt(limit) THEN [exc |-> "TypeError", ret |-> None]
    ELSE IF limit.int > 0 /\ ~IsInt(remaining) THEN [exc |-> "TypeError", ret |-> None]
    ELSE [exc |-> "",
          ret |-> [remaining |-> remaining, limit |-> limit,
                   usage |-> Usage(remaining, limit)]]

(* the whole function: what it returns and the exception its handler     *)
(* caught and printed ("" when none)                                     *)
check_rate_limit(resp) ==
    IF resp.fetch # "ok" THEN [exc |-> resp.fetch, ret |-> None]
    ELSE LET h == FromHeaders(resp.headers) IN
         IF h.exc # "" THEN [exc |-> h.exc, ret |-> None]
         ELSE IF h.remaining = None /\ IsJsonContentType(resp.ctype)
         THEN LET j == FromJson(resp.body) IN
              IF j.exc # "" THEN [exc |-> j.exc, ret |-> None]
              ELSE MakeResult(j.remaining, j.limit)
         ELSE MakeResult(h.remaining, h.limit)

----------------------------------------------------------------------------
(* Bounds *)

MaxPasses == 2

Names == {"a", "b"}
Endpoints == {"https://api.example/rate_limit"}
RequestHeaders == { <<>> }
(* thresholds passed to add_api: 0.9 and the default 0.95 *)
Thresholds == {Rat(90, 100), Rat(95, 100)}

----------------------------------------------------------------------------
(* Responses of the monitored servers *)

Hdr(i, rem, lim) == (header_variants[i][1] :> rem) @@ (header_variants[i][2] :> lim)
NoHeaders == <<>>
EmptyBody == [invalid |-> TRUE]
JInt(n) == [int |-> n]
JNull == [null |-> TRUE]
JObj(f) == [obj |-> f]
Rate(r) == JObj([rate |-> JObj(r)])

FetchErrors == {"ConnectionError", "HTTPError", "Timeout"}

Failed(e) == [fetch |-> e, headers |-> NoHeaders, ctype |-> "", body |-> EmptyBody]
Ok(h, c, b) == [fetch |-> "ok", headers |-> h, ctype |-> c, body |-> b]

(* the responses a pass is run against: every failure, a first pair with *)
(* a non-integer value over a valid second pair and a valid JSON body,   *)
(* responses without rate-limit data, and results below, at and above    *)
(* the thresholds, with limit 0 and with remaining > limit               *)
PassResponses ==
    { Failed(e) : e \in FetchErrors }
    \cup { Ok(Hdr(1, <<"x">>, <<"2", "0">>) @@ Hdr(2, <<"1">>, <<"2", "0">>),
              "application/json", Rate([remaining |-> JInt(1), limit |-> JInt(20)])),
           Ok(Hdr(2, <<"1">>, <<"x">>) @@ Hdr(3, <<"1">>, <<"2", "0">>), "", EmptyBody),
           Ok(NoHeaders, "text/html", EmptyBody),
           Ok(NoHeaders, "application/json", Rate([remaining |-> JInt(1)])),
           Ok(Hdr(1, <<"1", "0">>, <<"2", "0">>), "", EmptyBody),
           Ok(Hdr(1, <<"2">>, <<"2", "0">>) @@ Hdr(2, <<"1">>, <<"2", "0">>), "", EmptyBody),
           Ok(NoHeaders, "application/json", Rate([remaining |-> JInt(1), limit |-> JInt(20)])),
           Ok(Hdr(3, <<"1">>, <<"0">>), "text/html", EmptyBody) }

(* the responses check_rate_limit is applied to on its own: every       *)
(* combination of present, absent, integer and non-integer headers over  *)
(* three bodies, and every body over the headers that complete no pair   *)
PairValues ==
    << {<<"x">>, <<"0">>, <<"1">>, <<"2", "0">>, <<"-", "1">>},
       {<<"x">>, <<"5">>},
       {<<"x">>, <<"7">>} >>

PairHeaders(i) ==
    {NoHeaders}
    \cup {(header_variants[i][1] :> v) : v \in PairValues[i]}
    \cup {(header_variants[i][2] :> v) : v \in PairValues[i]}
    \cup {Hdr(i, r, l) : r \in PairValues[i], l \in PairValues[i]}

AllHeaders == {h1 @@ h2 @@ h3 : h1 \in PairHeaders(1), h2 \in PairHeaders(2),
                                h3 \in PairHeaders(3)}

PartialHeaders ==
    { NoHeaders,
      (header_variants[1][1] :> <<"1">>),
      (header_variants[1][1] :> <<"1">>) @@ (header_variants[2][2] :> <<"5">>),
      (header_variants[3][2] :> <<"7">>) }

ContentTypes == {"", "text/html", "application/json", "application/json; charset=utf-8"}

JStr(t) == [str |-> t]

RateObjects ==
    { <<>>,
      [remaining |-> JInt(3)],
      [limit |-> JInt(30)],
      [remaining |-> JInt(3), limit |-> JInt(30)],
      [remaining |-> JInt(0), limit |-> JInt(30)],
      [remaining |-> JInt(3), limit |-> JInt(0)],
      [remaining |-> JNull, limit |-> JInt(30)],
      [remaining |-> JStr("3"), limit |-> JInt(30)],
      [remaining |-> JStr("3"), limit |-> JInt(0)],
      [remaining |-> JInt(3), limit |-> JStr("30")] }

ResourceLists ==
    { <<>>,
      << JObj([remaining |-> JInt(4)]) >>,
      << JObj(<<>>), JObj([remaining |-> JInt(4), limit |-> JInt(40)]) >>,
      << JObj([remaining |-> JInt(4), limit |-> JInt(40)]),
         JObj([remaining |-> JInt(6), limit |-> JInt(60)]) >>,
      << JObj([remaining |-> JNull, limit |-> JInt(40)]),
         JObj([remaining |-> JInt(6), limit |-> JInt(60)]) >>,
      << JInt(5), JObj([remaining |-> JInt(4), limit |-> JInt(40)]) >> }

DataObjects ==
    { r @@ s :
        r \in {<<>>, ("rate" :> JInt(5))} \cup {("rate" :> JObj(x)) : x \in RateObjects},
        s \in {<<>>, ("resources" :> JInt(5))}
              \cup {("resources" :> [vals |-> v]) : v \in ResourceLists} }

AllBodies == {EmptyBody, JNull} \cup {JObj(d) : d \in DataObjects}

(* the response of src/tests/test_monitor_core.py:4-5 and the one with  *)
(* two complete pairs, 10/100 and 5/50                                  *)
TestResponse ==
    Ok(Hdr(1, <<"1", "0">>, <<"1", "0", "0">>), "", EmptyBody)
TwoPairResponse ==
    Ok(Hdr(1, <<"1", "0">>, <<"1", "0", "0">>) @@ Hdr(2, <<"5">>, <<"5", "0">>), "", EmptyBody)

AllResponses ==
    { Failed(e) : e \in FetchErrors }
    \cup { TestResponse, TwoPairResponse }
    \cup { Ok(h, "", EmptyBody) : h \in AllHeaders }
    \cup { Ok(h, "application/json", EmptyBody) : h \in AllHeaders }
    \cup { Ok(h, "application/json",
              JObj([rate |-> JObj([remaining |-> JInt(3), limit |-> JInt(30)]),
                    resources |-> [vals |-> << JObj([remaining |-> JInt(4),
                                                      limit |-> JInt(40)]) >>]]))
           : h \in AllHeaders }
    \cup { Ok(h, c, b) : h \in PartialHeaders, c \in ContentTypes, b \in AllBodies }

----------------------------------------------------------------------------
(* The registry and the persisted document                                *)
(* apis is the dict in insertion order: a sequence of [name, config].     *)

(* a new target stamped with a check time at registration *)
NewConfig_stamped(endpoint, headers, threshold) ==
    [endpoint |-> endpoint, headers |-> headers, threshold |-> threshold,
     last_check |-> [iso |-> 0], last_remaining |-> None, last_limit |-> None]

NewConfig(endpoint, headers, threshold) ==
    [endpoint |-> endpoint, headers |-> headers, threshold |-> threshold,
     last_check |-> None, last_remaining |-> None, last_limit |-> None]

HasName(reg, name) == \E i \in 1..Len(reg) : reg[i].name = name
IndexOf(reg, name) == CHOOSE i \in 1..Len(reg) : reg[i].name = name

(* json.dump / json.load of one value: None is written as null *)
ToJsonValue(v) == IF v = None THEN JNull ELSE v
FromJsonValue(j) == IF j = JNull THEN None ELSE j

NoFile == [nofile |-> TRUE]

(* json_dump writing the configuration only *)
json_dump_without_last_seen(reg) ==
    [i \in 1..Len(reg) |->
        [key |-> reg[i].name,
         value |-> [endpoint |-> reg[i].config.endpoint,
                    headers |-> reg[i].config.headers,
                    threshold |-> reg[i].config.threshold,
                    last_check |-> [null |-> TRUE],
                    last_remaining |-> [null |-> TRUE],
                    last_limit |-> [null |-> TRUE]]]]

(* the document json.dump writes, src/monitor.py:57-58: an object whose  *)
(* members are the targets in insertion order                             *)
json_dump(reg) ==
    [i \in 1..Len(reg) |->
        [key |-> reg[i].name,
         value |-> [endpoint |-> reg[i].config.endpoint,
                    headers |-> reg[i].config.headers,
                    threshold |-> reg[i].config.threshold,
                    last_check |-> ToJsonValue(reg[i].config.last_check),
                    last_remaining |-> ToJsonValue(reg[i].config.last_remaining),
                    last_limit |-> ToJsonValue(reg[i].config.last_limit)]]]

json_load(doc) ==
    [i \in 1..Len(doc) |->
        [name |-> doc[i].key,
         config |-> [endpoint |-> doc[i].value.endpoint,
                     headers |-> doc[i].value.headers,
                     threshold |-> doc[i].value.threshold,
                     last_check |-> FromJsonValue(doc[i].value.last_check),
                     last_remaining |-> FromJsonValue(doc[i].value.last_remaining),
                     last_limit |-> FromJsonValue(doc[i].value.last_limit)]]]

(* src/monitor.py:55-58 *)
save_apis(reg) == [doc |-> json_dump(reg)]

(* src/monitor.py:48-53 *)
load_apis(d) == IF d = NoFile THEN <<>> ELSE json_load(d.doc)

(* apis.json holding text that json.load cannot parse *)
Corrupted == [corrupted |-> TRUE]

(* a constructor that starts with an empty registry when the document   *)
(* cannot be parsed                                                       *)
Construct_start_empty(d) ==
    [pc |-> "ready", apis |-> IF d = Corrupted THEN <<>> ELSE load_apis(d)]

(* RateLimitMonitor() as main calls it, src/monitor.py:218: __init__     *)
(* calls load_apis, and the JSONDecodeError json.load raises is caught   *)
(* nowhere, so the process ends with a traceback before any command      *)
Construct(d) ==
    IF d = Corrupted
    THEN [pc |-> "Failed", apis |-> <<>>]
    ELSE [pc |-> "ready", apis |-> load_apis(d)]

----------------------------------------------------------------------------
(* The alert senders.  The outcome of the call to the chat service is an *)
(* input: "ok", the client library's own error, or any other exception   *)
(* the call raises (urllib's URLError when the service is unreachable).  *)

SlackOutcomes == {"ok", "SlackApiError", "URLError"}
DiscordOutcomes == {"ok", "no channel", "HTTPException"}

(* a marker that turns critical at 90% usage *)
emoji_at_90(usage) == IF RatGE(usage, Rat(90, 100)) THEN "critical" ELSE "warning"

(* the severity marker that opens the message, src/monitor.py:136 and   *)
(* 158: the siren at 95% usage and above, the warning sign below         *)
emoji(usage) == IF RatGE(usage, Rat(95, 100)) THEN "critical" ELSE "warning"

(* src/monitor.py:130-148: returns at once without client or channel;    *)
(* the marker is chosen first, then `{remaining:,}` raises ValueError    *)
(* for a value that is not a number; the handler catches SlackApiError   *)
(* only.  marker is "none" where no message is built.                    *)
send_slack_alert(on, remaining, limit, usage, outcome) ==
    IF ~on THEN [status |-> "disabled", raised |-> FALSE, marker |-> "none"]
    ELSE IF ~IsInt(remaining) \/ ~IsInt(limit)
    THEN [status |-> "ValueError", raised |-> TRUE, marker |-> emoji(usage)]
    ELSE IF outcome = "ok"
    THEN [status |-> "sent", raised |-> FALSE, marker |-> emoji(usage)]
    ELSE IF outcome = "SlackApiError"
    THEN [status |-> "SlackApiError", raised |-> FALSE, marker |-> emoji(usage)]
    ELSE [status |-> outcome, raised |-> TRUE, marker |-> emoji(usage)]

(* src/monitor.py:150-166: the handler catches every Exception *)
send_discord_alert(on, remaining, limit, usage, outcome) ==
    IF ~on THEN [status |-> "disabled", raised |-> FALSE, marker |-> "none"]
    ELSE IF outcome = "no channel"
    THEN [status |-> "no channel", raised |-> FALSE, marker |-> "none"]
    ELSE IF ~IsInt(remaining) \/ ~IsInt(limit)
    THEN [status |-> "ValueError", raised |-> FALSE, marker |-> emoji(usage)]
    ELSE IF outcome = "ok"
    THEN [status |-> "sent", raised |-> FALSE, marker |-> emoji(usage)]
    ELSE [status |-> outcome, raised |-> FALSE, marker |-> emoji(usage)]

NotCalled == [status |-> "not called", raised |-> FALSE, marker |-> "none"]

(* src/monitor.py:182 *)
ThresholdExceeded(usage, threshold) == RatGE(usage, threshold)

(* alerting that remembers: no alert for a target checked before *)
AlertDecision_once(result, config) ==
    /\ result # None
    /\ ThresholdExceeded(result.usage, config.threshold)
    /\ config.last_check = None

(* src/monitor.py:172-182: the alert branch is taken for a result whose  *)
(* usage reaches the target's threshold                                   *)
AlertDecision(result, config) ==
    result # None /\ ThresholdExceeded(result.usage, config.threshold)

(* the two numbers stored the wrong way round *)
UpdateLastSeen_swapped(config, result, now) ==
    [config EXCEPT !.last_check = [iso |-> now],
                   !.last_remaining = result.limit,
                   !.last_limit = result.remaining]

(* src/monitor.py:177-179 *)
UpdateLastSeen(config, result, now) ==
    [config EXCEPT !.last_check = [iso |-> now],
                   !.last_remaining = result.remaining,
                   !.last_limit = result.limit]

----------------------------------------------------------------------------
(* State after construction on a machine without apis.json,              *)
(* src/monitor.py:34-46: the channels are enabled by the environment     *)

Init ==
    /\ disk = NoFile
    /\ apis = load_apis(NoFile)
    /\ pc = "ready"
    /\ idx = 0
    /\ clock = 0
    /\ slack_on \in BOOLEAN
    /\ discord_on \in BOOLEAN
    /\ last = [op |-> "init"]
    /\ failed = {}
    /\ saves = 0
    /\ jobs = 0

(* add_api changing the configuration of an existing target in place *)
AddToRegistry_keep_last_seen(reg, name, endpoint, headers, threshold) ==
    IF HasName(reg, name)
    THEN [reg EXCEPT ![IndexOf(reg, name)].config =
             [@ EXCEPT !.endpoint = endpoint, !.headers = headers,
                       !.threshold = threshold]]
    ELSE Append(reg, [name |-> name, config |-> NewConfig(endpoint, headers, threshold)])

(* src/monitor.py:60-71: an existing name keeps its place in the dict *)
AddToRegistry(reg, name, endpoint, headers, threshold) ==
    IF HasName(reg, name)
    THEN [reg EXCEPT ![IndexOf(reg, name)].config = NewConfig(endpoint, headers, threshold)]
    ELSE Append(reg, [name |-> name, config |-> NewConfig(endpoint, headers, threshold)])

(* whether the registry holds last-seen values under this name *)
HadLastSeen(reg, name) ==
    HasName(reg, name) /\ reg[IndexOf(reg, name)].config.last_check # None

(* a call of add_api with arguments drawn from the given sets; `last`    *)
(* records the call and what it found under the name                     *)
add_api_call(names, endpoints, headersets, thresholds) ==
    /\ pc = "ready"
    /\ \E name \in names, endpoint \in endpoints, headers \in headersets,
          threshold \in thresholds :
          /\ apis' = AddToRegistry(apis, name, endpoint, headers, threshold)
          /\ last' = [op |-> "add_api", name |-> name, endpoint |-> endpoint,
                      headers |-> headers, threshold |-> threshold,
                      overwrote |-> HasName(apis, name),
                      discarded |-> HadLastSeen(apis, name)]
    /\ disk' = save_apis(apis')
    /\ saves' = 1
    /\ UNCHANGED <<pc, idx, clock, slack_on, discord_on, failed, jobs>>

add_api == add_api_call(Names, Endpoints, RequestHeaders, Thresholds)

(* remove_api emptying the registry *)
RemoveFromRegistry_clear(reg, name) == <<>>

(* src/monitor.py:73-80 *)
RemoveFromRegistry(reg, name) ==
    SelectSeq(reg, LAMBDA t : t.name # name)

(* remove_api saving whether or not the name was found *)
RemoveApi_saves_always(reg, d, name) ==
    [apis |-> RemoveFromRegistry(reg, name),
     disk |-> save_apis(RemoveFromRegistry(reg, name)),
     saves |-> 1, found |-> HasName(reg, name)]

(* the body of remove_api, src/monitor.py:75-80: delete and save, or     *)
(* print "not found" and return                                          *)
RemoveApi(reg, d, name) ==
    IF HasName(reg, name)
    THEN [apis |-> RemoveFromRegistry(reg, name),
          disk |-> save_apis(RemoveFromRegistry(reg, name)),
          saves |-> 1, found |-> TRUE]
    ELSE [apis |-> reg, disk |-> d, saves |-> 0, found |-> FALSE]

remove_api ==
    /\ pc = "ready"
    /\ \E name \in Names :
       \E r \in {RemoveApi(apis, disk, name)} :
          /\ apis' = r.apis
          /\ disk' = r.disk
          /\ saves' = r.saves
          /\ last' = [op |-> "remove_api", name |-> name, found |-> r.found]
    /\ UNCHANGED <<pc, idx, clock, slack_on, discord_on, failed, jobs>>

(* entry of check_all_apis, src/monitor.py:168-170; with no target the   *)
(* loop body never runs and line 189 saves at once                       *)
BeginPass ==
    /\ clock < MaxPasses
    /\ clock' = clock + 1
    /\ failed' = {}
    /\ IF Len(apis) = 0
       THEN /\ disk' = save_apis(apis)
            /\ saves' = 1
            /\ pc' = "Idle"
            /\ idx' = 0
       ELSE /\ disk' = disk
            /\ saves' = 0
            /\ pc' = "Checking"
            /\ idx' = 1
    /\ UNCHANGED <<apis, slack_on, discord_on>>

(* src/monitor.py:191-199: run registers the job with the scheduler      *)
(* (line 196), then makes the initial check (line 199)                   *)
run ==
    /\ pc = "ready"
    /\ jobs' = jobs + 1
    /\ BeginPass
    /\ last' = [op |-> "run"]

(* src/monitor.py:201-203: run_pending finds the registered job due *)
Tick ==
    /\ pc = "Idle"
    /\ jobs > 0
    /\ BeginPass
    /\ last' = [op |-> "tick"]
    /\ UNCHANGED jobs

(* one iteration of the loop of check_all_apis, src/monitor.py:170-187,  *)
(* and, after the last target, the save of line 189.  An exception that  *)
(* leaves a sender leaves check_all_apis and run: the process dies.      *)
CheckTargetOn(responses) ==
    /\ pc = "Checking"
    /\ \E resp \in responses :
       \E out \in {check_rate_limit(resp)} :
       \E alert \in {AlertDecision(out.ret, apis[idx].config)} :
       \E so \in (IF alert /\ slack_on THEN SlackOutcomes ELSE {"ok"}),
          do \in (IF alert /\ discord_on THEN DiscordOutcomes ELSE {"ok"}) :
       \E slack \in {IF alert
                     THEN send_slack_alert(slack_on, out.ret.remaining, out.ret.limit,
                                           out.ret.usage, so)
                     ELSE NotCalled} :
       \E discord \in {IF alert /\ ~slack.raised
                       THEN send_discord_alert(discord_on, out.ret.remaining,
                                               out.ret.limit, out.ret.usage, do)
                       ELSE NotCalled} :
          /\ apis' = IF out.ret # None
                     THEN [apis EXCEPT ![idx].config = UpdateLastSeen(@, out.ret, clock)]
                     ELSE apis
          /\ last' = [op |-> "check", at |-> idx, name |-> apis[idx].name,
                      before |-> apis[idx].config, resp |-> resp, exc |-> out.exc,
                      result |-> out.ret, alert |-> alert,
                      slack |-> slack.status, discord |-> discord.status,
                      slack_marker |-> slack.marker,
                      discord_marker |-> discord.marker,
                      raised |-> slack.raised \/ discord.raised]
          /\ failed' = IF resp.fetch # "ok" THEN failed \cup {idx} ELSE failed
          /\ IF slack.raised \/ discord.raised
             THEN /\ pc' = "Crashed"
                  /\ UNCHANGED <<idx, disk, saves>>
             ELSE IF idx = Len(apis)
             THEN /\ pc' = "Idle"
                  /\ idx' = 0
                  /\ disk' = save_apis(apis')
                  /\ saves' = saves + 1
             ELSE /\ pc' = "Checking"
                  /\ idx' = idx + 1
                  /\ UNCHANGED <<disk, saves>>
    /\ UNCHANGED <<clock, slack_on, discord_on, jobs>>

(* a step of the pass against the responses of PassResponses *)
CheckTarget == CheckTargetOn(PassResponses)

(* the process ends (a command returns, a signal, an uncaught exception) *)
(* and the program is started again: the constructor loads the document  *)
(* and the new process has registered no job                             *)
Restart ==
    /\ pc \in {"ready", "Idle", "Crashed", "Failed"}
    /\ \E m \in {Construct(disk)} :
          /\ apis' = m.apis
          /\ pc' = m.pc
    /\ idx' = 0
    /\ jobs' = 0
    /\ slack_on' \in BOOLEAN
    /\ discord_on' \in BOOLEAN
    /\ last' = [op |-> "restart"]
    /\ failed' = {}
    /\ saves' = 0
    /\ UNCHANGED <<disk, clock>>

Next ==
    \/ add_api
    \/ remove_api
    \/ run
    \/ Tick
    \/ CheckTarget
    \/ Restart

Spec == Init /\ [][Next]_vars

----------------------------------------------------------------------------
(* check_rate_limit called on its own by a script that then ends, as     *)
(* src/tests/test_monitor_core.py calls it: the registry is not touched  *)
check_rate_limit_call ==
    /\ pc = "ready"
    /\ \E resp \in AllResponses :
       \E out \in {check_rate_limit(resp)} :
          last' = [op |-> "check_rate_limit", resp |-> resp, exc |-> out.exc,
                   result |-> out.ret]
    /\ pc' = "exit"
    /\ UNCHANGED <<apis, disk, idx, clock, slack_on, discord_on, failed, saves,
                   jobs>>

SpecExtract == Init /\ [][check_rate_limit_call]_vars

----------------------------------------------------------------------------
(* The monitor constructed where apis.json already holds three targets,  *)
(* written by three earlier --add-api commands, and then run             *)

ThreeTargets ==
    << [name |-> "a", config |-> NewConfig("https://api.example/rate_limit", <<>>, Rat(90, 100))],
       [name |-> "b", config |-> NewConfig("https://api.example/rate_limit", <<>>, Rat(95, 100))],
       [name |-> "c", config |-> NewConfig("https://api.example/rate_limit", <<>>, Rat(90, 100))] >>

InitPass ==
    /\ disk = save_apis(ThreeTargets)
    /\ apis = load_apis(disk)
    /\ pc = "ready"
    /\ idx = 0
    /\ clock = 0
    /\ slack_on \in BOOLEAN
    /\ discord_on \in BOOLEAN
    /\ last = [op |-> "init"]
    /\ failed = {}
    /\ saves = 0
    /\ jobs = 0

NextPass ==
    \/ run
    \/ Tick
    \/ CheckTarget
    \/ Restart

SpecPass == InitPass /\ [][NextPass]_vars

----------------------------------------------------------------------------
(* The registry commands with every kind of argument: add_api called     *)
(* directly (as src/tests/test_monitor_core.py does) and through the     *)
(* command line, remove_api, and passes, from an empty registry          *)

RegistryEndpoints == {"https://api.example/rate_limit", "https://api.example/v2/limits"}

(* a headers dict is the sequence of its items, keys and values being    *)
(* sequences of characters                                               *)
AuthHeader == << [key |-> <<"k">>, value |-> <<"v">>] >>
RegistryHeaders == { <<>>, AuthHeader }

(* 0.9 and 1.5: add_api and argparse's type=float take any number *)
RegistryThresholds == {Rat(90, 100), Rat(150, 100)}

(* a failed fetch and a result at 95% usage *)
RegistryResponses ==
    { Failed("Timeout"), Ok(Hdr(1, <<"1">>, <<"2", "0">>), "", EmptyBody) }

(* the arguments of the command line: --add-api and --endpoint may be    *)
(* empty strings, --header repeats                                       *)
CliNames == Names \cup {""}
CliEndpoints == RegistryEndpoints \cup {""}
CliHeaderArgs ==
    { <<>>,
      << <<"k", ":", "v">> >>,
      << <<"j", "u", "n", "k">>, <<"k", ":", "v">> >>,
      << <<"k", ":", "x">>, <<"k", ":", "v">> >> }

(* position of the first ":" of h at or after i, 0 if there is none *)
RECURSIVE ColonAt(_, _)
ColonAt(h, i) ==
    IF i > Len(h) THEN 0
    ELSE IF h[i] = ":" THEN i
    ELSE ColonAt(h, i + 1)

(* headers[key] = value, src/monitor.py:226: a present key keeps its     *)
(* place and takes the new value                                         *)
DictSet(d, key, value) ==
    IF \E i \in 1..Len(d) : d[i].key = key
    THEN [i \in 1..Len(d) |-> IF d[i].key = key
                              THEN [key |-> key, value |-> value]
                              ELSE d[i]]
    ELSE Append(d, [key |-> key, value |-> value])

(* src/monitor.py:221-226: each --header with a colon is split at its    *)
(* first colon, the others are skipped                                   *)
RECURSIVE ParseHeaders(_)
ParseHeaders(args) ==
    IF args = <<>> THEN <<>>
    ELSE LET rest == ParseHeaders(SubSeq(args, 1, Len(args) - 1))
             h == args[Len(args)]
             k == ColonAt(h, 1)
         IN IF k = 0 THEN rest
            ELSE DictSet(rest, SubSeq(h, 1, k - 1), SubSeq(h, k + 1, Len(h)))

add_api_any ==
    add_api_call(Names, RegistryEndpoints, RegistryHeaders, RegistryThresholds)

(* main with --add-api, --endpoint, --header and --threshold,            *)
(* src/monitor.py:220-238: an empty name or endpoint is falsy, no other  *)
(* command is given, and main falls through to run                       *)
main_add_api ==
    /\ pc = "ready"
    /\ \E name \in CliNames, endpoint \in CliEndpoints, header \in CliHeaderArgs,
          threshold \in RegistryThresholds :
          IF name # "" /\ endpoint # ""
          THEN /\ apis' = AddToRegistry(apis, name, endpoint, ParseHeaders(header),
                                        threshold)
               /\ last' = [op |-> "add_api", name |-> name, endpoint |-> endpoint,
                           headers |-> ParseHeaders(header), threshold |-> threshold,
                           overwrote |-> HasName(apis, name),
                           discarded |-> HadLastSeen(apis, name)]
               /\ disk' = save_apis(apis')
               /\ saves' = 1
               /\ UNCHANGED <<pc, idx, clock, slack_on, discord_on, failed, jobs>>
          ELSE /\ jobs' = jobs + 1
               /\ BeginPass
               /\ last' = [op |-> "run"]

CheckTargetRegistry == CheckTargetOn(RegistryResponses)

NextRegistry ==
    \/ add_api_any
    \/ main_add_api
    \/ remove_api
    \/ run
    \/ Tick
    \/ CheckTargetRegistry
    \/ Restart

SpecRegistry == Init /\ [][NextRegistry]_vars

----------------------------------------------------------------------------
(* The program started where apis.json is absent, holds one target, or   *)
(* holds text that is no JSON; the file can also be damaged later, from  *)
(* outside the program (save_apis writes in place, and a crash during    *)
(* the write leaves a truncated file)                                    *)

OneTarget == << ThreeTargets[1] >>

StartupDocuments == {NoFile, Corrupted, save_apis(OneTarget)}

InitStartup ==
    /\ disk \in StartupDocuments
    /\ apis = Construct(disk).apis
    /\ pc = Construct(disk).pc
    /\ idx = 0
    /\ clock = 0
    /\ slack_on \in BOOLEAN
    /\ discord_on \in BOOLEAN
    /\ last = [op |-> "init"]
    /\ failed = {}
    /\ saves = 0
    /\ jobs = 0

DamageDocument ==
    /\ disk \notin {NoFile, Corrupted}
    /\ disk' = Corrupted
    /\ last' = [op |-> "damage"]
    /\ UNCHANGED <<apis, pc, idx, clock, slack_on, discord_on, failed, saves, jobs>>

NextStartup ==
    \/ run
    \/ Tick
    \/ CheckTarget
    \/ Restart
    \/ DamageDocument

SpecStartup == InitStartup /\ [][NextStartup]_vars

----------------------------------------------------------------------------
(* Passes over two targets, with thresholds 0.9 and 0.95, whose servers  *)
(* report usage around the 0.95 mark of the severity marker              *)

TwoTargets == << ThreeTargets[1], ThreeTargets[2] >>

(* of a limit of 100: usage 0.5, 0.9, 0.92, 0.94, 0.95 and 0.97 *)
AlertResponses ==
    { Ok(Hdr(1, rem, <<"1", "0", "0">>), "", EmptyBody) :
         rem \in { <<"5", "0">>, <<"1", "0">>, <<"8">>, <<"6">>, <<"5">>, <<"3">> } }

InitAlert ==
    /\ disk = save_apis(TwoTargets)
    /\ apis = load_apis(disk)
    /\ pc = "ready"
    /\ idx = 0
    /\ clock = 0
    /\ slack_on \in BOOLEAN
    /\ discord_on \in BOOLEAN
    /\ last = [op |-> "init"]
    /\ failed = {}
    /\ saves = 0
    /\ jobs = 0

CheckTargetAlert == CheckTargetOn(AlertResponses)

NextAlert ==
    \/ run
    \/ Tick
    \/ CheckTargetAlert
    \/ Restart

SpecAlert == InitAlert /\ [][NextAlert]_vars

----------------------------------------------------------------------------
(* Properties of one check, under SpecExtract *)

(* the integers the header texts of the responses stand for *)
HeaderInts ==
    (<<"0">> :> 0) @@ (<<"1">> :> 1) @@ (<<"5">> :> 5) @@ (<<"7">> :> 7)
    @@ (<<"2">> :> 2) @@ (<<"1", "0">> :> 10) @@ (<<"2", "0">> :> 20) @@ (<<"5", "0">> :> 50)
    @@ (<<"1", "0", "0">> :> 100) @@ (<<"-", "1">> :> 0 - 1)

RemainingText(headers, i) == headers[header_variants[i][1]]
LimitText(headers, i) == headers[header_variants[i][2]]

(* pair i is complete and no pair before it is *)
FirstComplete(headers, i) ==
    /\ header_variants[i][1] \in DOMAIN headers
    /\ header_variants[i][2] \in DOMAIN headers
    /\ \A j \in 1..(i - 1) :
          header_variants[j][1] \notin DOMAIN headers
          \/ header_variants[j][2] \notin DOMAIN headers

NoCompletePair(headers) ==
    \A i \in 1..Len(header_variants) : ~FirstComplete(headers, i)

Called == last.op = "check_rate_limit" /\ last.resp.fetch = "ok"

(* C6: header extraction follows the fixed priority X-RateLimit-*,       *)
(* RateLimit-*, X-Rate-Limit-*: when the first pair with both headers    *)
(* present holds integers, the result's remaining and limit are the      *)
(* integer values of that pair, whatever lower-priority pairs are also   *)
(* present, so never of two different pairs; 10/100 with 5/50 yields     *)
(* (10, 100), and the test's response yields (10, 100).                  *)
C6_HeaderPriority ==
    Called =>
       /\ \A i \in 1..Len(header_variants) :
             ( /\ FirstComplete(last.resp.headers, i)
               /\ RemainingText(last.resp.headers, i) \in DOMAIN HeaderInts
               /\ LimitText(last.resp.headers, i) \in DOMAIN HeaderInts )
             => /\ last.result # None
                /\ last.result.remaining
                      = PyInt(HeaderInts[RemainingText(last.resp.headers, i)])
                /\ last.result.limit
                      = PyInt(HeaderInts[LimitText(last.resp.headers, i)])
       /\ last.resp \in {TestResponse, TwoPairResponse}
             => /\ last.result # None
                /\ last.result.remaining = PyInt(10)
                /\ last.result.limit = PyInt(100)

C6_Witness ==
    /\ Called
    /\ last.resp = TwoPairResponse
    /\ last.result # None
    /\ last.result.remaining = PyInt(10)
    /\ last.result.limit = PyInt(100)

BodyHasBothShapes(resp) ==
    /\ IsJsonContentType(resp.ctype)
    /\ DOMAIN resp.body = {"obj"}
    /\ "rate" \in DOMAIN resp.body.obj
    /\ "resources" \in DOMAIN resp.body.obj

(* C7: when no header pair matched and the content type is JSON, a       *)
(* top-level `rate` object takes precedence over the `resources` scan:   *)
(* with both shapes in the body a result holds the values of `rate`, and *)
(* `rate` with both integers gives a result; when a header pair matched  *)
(* the body is never consulted: outcome and result are those of the same *)
(* response without content type and body.                               *)
C7_RateBeforeResources ==
    Called =>
       /\ ( /\ NoCompletePair(last.resp.headers)
            /\ BodyHasBothShapes(last.resp)
            /\ DOMAIN last.resp.body.obj["rate"] = {"obj"} )
          => LET rate == last.resp.body.obj["rate"].obj IN
             /\ last.result # None
                  => /\ "remaining" \in DOMAIN rate /\ "limit" \in DOMAIN rate
                     /\ last.result.remaining = rate["remaining"]
                     /\ last.result.limit = rate["limit"]
             /\ rate = [remaining |-> JInt(3), limit |-> JInt(30)] => last.result # None
       /\ ~NoCompletePair(last.resp.headers)
          => /\ last.exc \in {"", "ValueError"}
             /\ [exc |-> last.exc, ret |-> last.result]
                   = check_rate_limit([last.resp EXCEPT !.ctype = "", !.body = EmptyBody])
             /\ last.result # None
                   => \E i \in 1..Len(header_variants) :
                         /\ FirstComplete(last.resp.headers, i)
                         /\ last.result.remaining
                               = PyInt(HeaderInts[RemainingText(last.resp.headers, i)])

C7_Witness ==
    /\ Called
    /\ NoCompletePair(last.resp.headers)
    /\ BodyHasBothShapes(last.resp)
    /\ last.resp.body.obj["resources"]
          = [vals |-> << JObj([remaining |-> JInt(4), limit |-> JInt(40)]),
                         JObj([remaining |-> JInt(6), limit |-> JInt(60)]) >>]
    /\ last.result # None
    /\ last.result.remaining = PyInt(3)
    /\ last.result.limit = PyInt(30)

(* C10: for every extracted integer pair (remaining, limit): if          *)
(* limit > 0 then usage = (limit - remaining) / limit, which lies in     *)
(* [0,1] whenever 0 <= remaining <= limit; if limit <= 0 then usage = 0, *)
(* and a result is produced for every integer pair, limit <= 0 included  *)
(* (no division by zero).                                                *)
C10_Usage ==
    Called =>
       /\ ( /\ last.result # None
            /\ IsInt(last.result.remaining)
            /\ IsInt(last.result.limit) )
          => LET remaining == last.result.remaining.int
                 limit == last.result.limit.int
                 usage == last.result.usage
             IN  /\ usage.den > 0
                 /\ limit > 0 => usage.num * limit = (limit - remaining) * usage.den
                 /\ (limit > 0 /\ 0 <= remaining /\ remaining <= limit)
                       => (0 <= usage.num /\ usage.num <= usage.den)
                 /\ limit <= 0 => usage.num = 0
       /\ \A i \in 1..Len(header_variants) :
             ( /\ FirstComplete(last.resp.headers, i)
               /\ RemainingText(last.resp.headers, i) \in DOMAIN HeaderInts
               /\ LimitText(last.resp.headers, i) \in DOMAIN HeaderInts )
             => last.result # None /\ last.exc = ""

C10_Witness ==
    /\ Called
    /\ last.result # None
    /\ last.result.remaining = PyInt(1)
    /\ last.result.limit = PyInt(0)
    /\ last.result.usage.num = 0
    /\ last.exc = ""

----------------------------------------------------------------------------
(* Properties of a pass, under Spec and SpecPass *)

Checked == last.op = "check"

NoSenderCalled == last.slack = "not called" /\ last.discord = "not called"

(* the loop goes on after the target just checked: to the next target,   *)
(* or past the last one to the save and to Idle                          *)
PassContinues ==
    /\ ~last.raised
    /\ IF last.at < Len(apis)
       THEN pc = "Checking" /\ idx = last.at + 1
       ELSE pc = "Idle" /\ saves = 1

(* C1: a target whose fetch fails keeps its last_check, last_remaining   *)
(* and last_limit, and every target that comes after it in the same pass *)
(* is still checked: when the pass has ended, every target after a       *)
(* failed one has had its check.                                         *)
C1_FailedFetchContained ==
    /\ (Checked /\ last.resp.fetch # "ok")
          => last.result = None /\ apis[last.at].config = last.before
    /\ (Checked /\ pc \in {"Idle", "Crashed"})
          => \A i \in failed : \A j \in (i + 1)..Len(apis) : j <= last.at

(* C2: every pass that starts completes and returns the scheduler to     *)
(* Idle; no per-target error escapes to abort the pass or the process:   *)
(* the process is never dead of an exception raised within a pass.       *)
C2_PassAlwaysCompletes == pc # "Crashed"

SlackFailures == {"SlackApiError", "URLError", "ValueError"}
DiscordFailures == {"no channel", "HTTPException", "ValueError"}

(* C3: when an alert is dispatched, a delivery failure of any kind on    *)
(* one channel does not prevent the attempt on the other channel and     *)
(* does not raise out of the notifier into check_all_apis.               *)
C3_DeliveryFailureContained ==
    Checked =>
       /\ last.slack \in SlackFailures => (last.discord # "not called" /\ ~last.raised)
       /\ last.discord \in DiscordFailures => (last.slack # "not called" /\ ~last.raised)

(* usage >= threshold for an integer pair, by cross-multiplication *)
AtOrOver(remaining, limit, threshold) ==
    IF limit > 0
    THEN (limit - remaining) * threshold.den >= threshold.num * limit
    ELSE 0 >= threshold.num

(* C4: for every target whose check yields a result, both channel        *)
(* senders are invoked if and only if usage >= the target's own          *)
(* threshold (inclusive); no sender is invoked for a target whose check  *)
(* yielded no result.                                                    *)
C4_AlertIffThreshold ==
    Checked =>
       IF last.result # None
       THEN (last.slack # "not called" /\ last.discord # "not called")
               <=> AtOrOver(last.result.remaining.int, last.result.limit.int,
                            last.before.threshold)
       ELSE NoSenderCalled

(* the member of the document for one target *)
Persisted(t) ==
    [key |-> t.name,
     value |-> [endpoint |-> t.config.endpoint,
                headers |-> t.config.headers,
                threshold |-> t.config.threshold,
                last_check |-> IF t.config.last_check = None THEN [null |-> TRUE]
                               ELSE t.config.last_check,
                last_remaining |-> IF t.config.last_remaining = None THEN [null |-> TRUE]
                                   ELSE t.config.last_remaining,
                last_limit |-> IF t.config.last_limit = None THEN [null |-> TRUE]
                               ELSE t.config.last_limit]]

(* C5: after a pass completes the registry has been persisted exactly    *)
(* once, at the end of the pass (not while targets are being checked),   *)
(* and the persisted document equals the in-memory registry, with every  *)
(* last-seen field updated during the pass.                              *)
C5_PersistedOncePerPass ==
    /\ pc = "Checking" => saves = 0
    /\ pc = "Idle"
          => /\ saves = 1
             /\ disk # NoFile
             /\ Len(disk.doc) = Len(apis)
             /\ \A i \in 1..Len(apis) : disk.doc[i] = Persisted(apis[i])
             /\ load_apis(disk) = apis

C5_Witness ==
    /\ pc = "Idle"
    /\ Checked
    /\ Len(apis) = 2
    /\ last.result # None
    /\ saves = 1
    /\ disk.doc[1].value.last_check = [iso |-> clock]
    /\ disk.doc[2].value.last_remaining = last.result.remaining
    /\ disk.doc[2].value.last_limit = last.result.limit

NonInteger(text) == text \notin DOMAIN HeaderInts

(* C8: if the first header pair that is present has a non-integer value, *)
(* the check yields no result (no fall through to a lower pair or to the *)
(* JSON body), no alert is sent, the target's last-seen fields are       *)
(* unchanged and the pass continues with the next target.                *)
C8_NonIntegerHeader ==
    (Checked /\ last.resp.fetch = "ok") =>
       \A i \in 1..Len(header_variants) :
          ( /\ FirstComplete(last.resp.headers, i)
            /\ \/ NonInteger(RemainingText(last.resp.headers, i))
               \/ NonInteger(LimitText(last.resp.headers, i)) )
          => /\ last.result = None
             /\ last.exc = "ValueError"
             /\ ~last.alert
             /\ NoSenderCalled
             /\ apis[last.at].config = last.before
             /\ PassContinues

C8_Witness ==
    /\ Checked
    /\ last.resp = Ok(Hdr(1, <<"x">>, <<"2", "0">>) @@ Hdr(2, <<"1">>, <<"2", "0">>),
                      "application/json",
                      Rate([remaining |-> JInt(1), limit |-> JInt(20)]))
    /\ last.result = None
    /\ last.before.last_remaining # None
    /\ apis[last.at].config = last.before
    /\ pc = "Checking"
    /\ idx = 2

(* neither strategy yields both values *)
NothingToExtract(resp) ==
    /\ resp.fetch = "ok"
    /\ NoCompletePair(resp.headers)
    /\ \/ ~IsJsonContentType(resp.ctype)
       \/ /\ DOMAIN resp.body = {"obj"}
          /\ "rate" \in DOMAIN resp.body.obj
          /\ DOMAIN resp.body.obj["rate"] = {"obj"}
          /\ \/ "remaining" \notin DOMAIN resp.body.obj["rate"].obj
             \/ "limit" \notin DOMAIN resp.body.obj["rate"].obj

(* C9: when a fetch succeeds but neither the header strategy nor the     *)
(* JSON strategy yields both remaining and limit (a `rate` object with   *)
(* only one of the two included), the check result is "not found": no    *)
(* exception is raised, no alert is sent, and the target's last_check,   *)
(* last_remaining and last_limit are unchanged for this cycle.           *)
C9_NotFound ==
    (Checked /\ NothingToExtract(last.resp)) =>
       /\ last.result = None
       /\ last.exc = ""
       /\ ~last.alert
       /\ NoSenderCalled
       /\ ~last.raised
       /\ apis[last.at].config = last.before

C9_Witness ==
    /\ Checked
    /\ last.resp = Ok(NoHeaders, "application/json", Rate([remaining |-> JInt(1)]))
    /\ last.result = None
    /\ last.exc = ""
    /\ last.before.last_limit # None
    /\ apis[last.at].config = last.before

----------------------------------------------------------------------------
(* Properties of the registry commands, under SpecRegistry *)

FreshConfig(endpoint, headers, threshold) ==
    [endpoint |-> endpoint, headers |-> headers, threshold |-> threshold,
     last_check |-> [none |-> TRUE], last_remaining |-> [none |-> TRUE],
     last_limit |-> [none |-> TRUE]]

Occurrences(reg, name) == Cardinality({i \in 1..Len(reg) : reg[i].name = name})

(* the targets of reg under another name than `name`, in order *)
Others(reg, name) == SelectSeq(reg, LAMBDA t : t.name # name)

(* C11: add_api(name, endpoint, headers, threshold) inserts the target   *)
(* or overwrites the one of that name; afterwards the target has the     *)
(* given endpoint, headers and threshold and empty last_check,           *)
(* last_remaining and last_limit, every other target is unchanged, and   *)
(* the persisted document equals the in-memory registry                  *)
C11_AddApi ==
    [][last'.op = "add_api"
       => /\ Occurrences(apis', last'.name) = 1
          /\ \A i \in 1..Len(apis') :
                apis'[i].name = last'.name
                => apis'[i].config = FreshConfig(last'.endpoint, last'.headers,
                                                last'.threshold)
          /\ Others(apis', last'.name) = Others(apis, last'.name)
          /\ \A i \in 1..Len(apis) : apis'[i].name = apis[i].name
          /\ disk' # NoFile
          /\ json_load(disk'.doc) = apis']_vars

(* add_api has replaced a target that had last-seen values, next to      *)
(* another target that keeps its own                                     *)
C11_Witness ==
    /\ last.op = "add_api"
    /\ last.overwrote
    /\ last.discarded
    /\ last.headers # <<>>
    /\ \E i \in 1..Len(apis) :
          apis[i].name # last.name /\ apis[i].config.last_check # None

(* C12: after add_api(name, ..., threshold = t) the registry contains    *)
(* name with threshold t; the steps of a pass and a restart keep every   *)
(* name and its threshold, so it stays until remove_api(name); after     *)
(* remove_api(name) the registry no longer contains name, the other      *)
(* targets are unchanged and the persisted document shows the removal    *)
C12_AddedUntilRemoved ==
    [][/\ last'.op = "add_api"
          => \E i \in 1..Len(apis') :
                /\ apis'[i].name = last'.name
                /\ apis'[i].config.threshold = last'.threshold
       /\ last'.op \in {"run", "tick", "check", "restart"}
          => /\ Len(apis') = Len(apis)
             /\ \A i \in 1..Len(apis) :
                   /\ apis'[i].name = apis[i].name
                   /\ apis'[i].config.threshold = apis[i].config.threshold
       /\ (last'.op = "remove_api" /\ HasName(apis, last'.name))
          => /\ ~HasName(apis', last'.name)
             /\ apis' = Others(apis, last'.name)
             /\ disk' # NoFile
             /\ json_load(disk'.doc) = apis'
             /\ saves' = 1]_vars

(* remove_api has removed one of two targets after a pass: the other is  *)
(* still there with the values the pass recorded                         *)
C12_Witness ==
    /\ last.op = "remove_api"
    /\ last.found
    /\ ~HasName(apis, last.name)
    /\ Len(apis) = 1
    /\ apis[1].config.last_check # None
    /\ load_apis(disk) = apis

(* C13: remove_api(name) for a name that is not in the registry reports  *)
(* "not found", raises nothing, leaves the in-memory registry as it was  *)
(* and writes nothing to the persisted document                          *)
C13_RemoveAbsent ==
    [][(last'.op = "remove_api" /\ ~HasName(apis, last'.name))
       => /\ ~last'.found
          /\ pc' = "ready"
          /\ apis' = apis
          /\ disk' = disk
          /\ saves' = 0]_vars

(* remove_api was called with a name the registry lacks while it holds   *)
(* another target                                                        *)
C13_Witness ==
    /\ last.op = "remove_api"
    /\ ~last.found
    /\ Len(apis) = 1
    /\ apis[1].name # last.name
    /\ saves = 0

----------------------------------------------------------------------------
(* Properties of the values a pass records, under Spec *)

BothPresent(config) == config.last_remaining # None /\ config.last_limit # None

(* C14 as stated: in every reachable state each target whose             *)
(* last_remaining and last_limit are both present has                    *)
(* last_remaining <= last_limit                                          *)
C14_RemainingAtMostLimit ==
    \A i \in 1..Len(apis) :
       (BothPresent(apis[i].config)
        /\ IsInt(apis[i].config.last_remaining) /\ IsInt(apis[i].config.last_limit))
       => apis[i].config.last_remaining.int <= apis[i].config.last_limit.int

(* the (remaining, limit) pairs check_rate_limit extracts from the       *)
(* responses of the servers                                              *)
ReportedPairs ==
    { <<check_rate_limit(resp).ret.remaining, check_rate_limit(resp).ret.limit>> :
         resp \in { r \in PassResponses : check_rate_limit(r).ret # None } }

(* C14, amended: in every reachable state each target whose              *)
(* last_remaining and last_limit are both present holds the remaining    *)
(* and the limit of one response, as check_rate_limit extracted them and *)
(* unvalidated, and just after a successful check they are that check's; *)
(* so last_remaining <= last_limit exactly when the server reported it   *)
C14_LastSeenAsReported ==
    /\ \A i \in 1..Len(apis) :
          BothPresent(apis[i].config)
          => <<apis[i].config.last_remaining, apis[i].config.last_limit>>
                \in ReportedPairs
    /\ (last.op = "check" /\ last.result # None)
       => /\ apis[last.at].config.last_remaining = last.result.remaining
          /\ apis[last.at].config.last_limit = last.result.limit

(* a target holds remaining 1 of a limit 0, as its server reported, and  *)
(* the pass has saved it                                                 *)
C14_Witness ==
    /\ pc = "Idle"
    /\ \E i \in 1..Len(apis) :
          /\ apis[i].config.last_remaining = PyInt(1)
          /\ apis[i].config.last_limit = PyInt(0)
    /\ load_apis(disk) = apis

----------------------------------------------------------------------------
(* Properties of the arguments add_api stores, under SpecRegistry *)

InUnitInterval(x) == RatGE(x, Rat(0, 1)) /\ RatGE(Rat(1, 1), x)

(* C15 as stated: in every reachable state every target's threshold lies *)
(* in [0, 1] and every target's name is non-empty, whatever arguments    *)
(* add_api was given, directly or from --add-api and --threshold         *)
C15_ThresholdAndNameValid ==
    \A i \in 1..Len(apis) :
       /\ InUnitInterval(apis[i].config.threshold)
       /\ apis[i].name # ""

----------------------------------------------------------------------------
(* Properties of the run loop, under Spec *)

(* C16 as stated: in loop mode the first pass starts at once, before the *)
(* interval timer is armed (no job is registered while the initial check *)
(* that run began is under way); a pass starts only at process start or  *)
(* on a timer fire; and the loop never reaches a terminal state on its   *)
(* own                                                                   *)
C16_FirstPassBeforeTimer ==
    /\ (last.op = "run" /\ pc = "Checking") => jobs = 0
    /\ (pc = "Checking" /\ last.op # "check") => last.op \in {"run", "tick"}
    /\ pc # "Crashed"

(* C17: alerting keeps no memory across passes: in every pass in which   *)
(* a target's check yields a result with usage >= its threshold the      *)
(* alert is attempted again (the alert branch is taken and the first     *)
(* sender is called), whatever the earlier passes recorded or sent       *)
C17_AlertEveryPass ==
    (/\ Checked
     /\ last.result # None
     /\ AtOrOver(last.result.remaining.int, last.result.limit.int, last.before.threshold))
    => /\ last.alert
       /\ last.slack # "not called"

(* the second pass alerts for a target whose last-seen values, recorded  *)
(* by the first pass, were already at or over its threshold              *)
C17_Witness ==
    /\ Checked
    /\ clock = 2
    /\ last.alert
    /\ last.slack # "not called"
    /\ last.before.last_check = [iso |-> 1]
    /\ AtOrOver(last.before.last_remaining.int, last.before.last_limit.int,
                last.before.threshold)

----------------------------------------------------------------------------
(* Properties of startup, under SpecStartup *)

(* C18: if apis.json exists at startup and cannot be parsed, startup     *)
(* fails: the process is never ready, so the loop does not start, no     *)
(* job is registered, no pass runs with an empty or partial registry and *)
(* the document is not written over; if no document exists, startup      *)
(* succeeds with an empty registry                                       *)
C18_StartupOnDocument ==
    /\ [](pc = "Failed" => (disk = Corrupted /\ jobs = 0 /\ saves = 0 /\ idx = 0))
    /\ [][/\ (last'.op = "restart" /\ disk = Corrupted)
             => (pc' = "Failed" /\ disk' = Corrupted)
          /\ (last'.op = "restart" /\ disk = NoFile)
             => (pc' = "ready" /\ apis' = <<>> /\ disk' = NoFile)
          /\ pc = "Failed"
             => (last'.op = "restart" /\ pc' = "Failed" /\ disk' = disk)]_vars

(* the document was damaged after a pass had saved it, and the next      *)
(* start of the program failed on it                                     *)
C18_Witness ==
    /\ pc = "Failed"
    /\ last.op = "restart"
    /\ disk = Corrupted
    /\ clock > 0

----------------------------------------------------------------------------
(* Properties of the alert message, under SpecAlert *)

MessageBuilt(status) == status \in {"sent", "SlackApiError", "URLError", "HTTPException"}

SeverityOf(remaining, limit) ==
    IF AtOrOver(remaining, limit, Rat(95, 100)) THEN "critical" ELSE "warning"

(* C19: whenever a sender builds an alert its severity marker is         *)
(* "critical" if and only if usage >= 0.95 and "warning" otherwise,      *)
(* whatever the target's threshold; a sender that built a message chose  *)
(* a marker, one that built none chose none                              *)
C19_SeverityMarker ==
    Checked =>
       IF last.alert
       THEN \E severity \in {SeverityOf(last.result.remaining.int,
                                         last.result.limit.int)} :
               /\ MessageBuilt(last.slack) => last.slack_marker = severity
               /\ MessageBuilt(last.discord) => last.discord_marker = severity
               /\ last.slack_marker \in {"none", severity}
               /\ last.discord_marker \in {"none", severity}
       ELSE last.slack_marker = "none" /\ last.discord_marker = "none"

(* threshold 0.9 and usage 0.92: both senders sent a warning *)
C19_Witness ==
    /\ Checked
    /\ last.before.threshold = Rat(90, 100)
    /\ last.result # None
    /\ last.result.remaining = PyInt(8)
    /\ last.result.limit = PyInt(100)
    /\ last.slack = "sent"
    /\ last.slack_marker = "warning"
    /\ last.discord = "sent"
    /\ last.discord_marker = "warning"

----------------------------------------------------------------------------
(* Properties of the last-seen values, under SpecRegistry *)

AllEmpty(config) ==
    /\ config.last_check = None
    /\ config.last_remaining = None
    /\ config.last_limit = None

AllPresent(config) ==
    /\ config.last_check # None
    /\ config.last_remaining # None
    /\ config.last_limit # None

(* C20: from an empty registry, in every state reached by add_api,       *)
(* remove_api and passes, each target's last_check, last_remaining and   *)
(* last_limit are all empty or all present, and no step of a pass        *)
(* changes the set of names or a target's endpoint, headers or threshold *)
C20_LastSeenTogether ==
    /\ [](\A i \in 1..Len(apis) :
             AllEmpty(apis[i].config) \/ AllPresent(apis[i].config))
    /\ [][last'.op \in {"run", "tick", "check"}
          => /\ Len(apis') = Len(apis)
             /\ \A i \in 1..Len(apis) :
                   /\ apis'[i].name = apis[i].name
                   /\ apis'[i].config.endpoint = apis[i].config.endpoint
                   /\ apis'[i].config.headers = apis[i].config.headers
                   /\ apis'[i].config.threshold = apis[i].config.threshold]_vars

(* a pass over two targets has ended: one check gave a result, the other *)
(* failed, and the targets keep their different configurations           *)
C20_Witness ==
    /\ pc = "Idle"
    /\ Len(apis) = 2
    /\ AllPresent(apis[1].config)
    /\ AllEmpty(apis[2].config)
    /\ apis[1].config.endpoint # apis[2].config.endpoint
    /\ apis[1].config.headers # apis[2].config.headers
    /\ apis[1].config.threshold # apis[2].config.threshold

====
